---------------------------- MODULE Spec2Model ----------------------------
(***************************************************************************)
(* Model of the document summarizer core: the prompt builder               *)
(* (src/prompts.py) and the NVIDIA LLM REST client (src/nvidia_client.py). *)
(*                                                                         *)
(* Python str values are sequences of one-character strings, except that   *)
(* a fixed literal of the source (a template line, a URL suffix) is kept   *)
(* as one element.  A character is written as itself or by its TLA+        *)
(* escape ("\t", "\n", "\f", "\r"); a character that has neither form      *)
(* is written by its code point, "U+000B".  Python / JSON values are       *)
(* tagged records [k |-> kind, v |-> payload].                             *)
(***************************************************************************)
EXTENDS Integers, Sequences, FiniteSets, TLC

VARIABLES
    env,        \* process environment: NVIDIA_API_KEY / _BASE / _MODEL
    ctorArgs,   \* arguments of the latest NvidiaLLMClient(...) call
    ctorResult, \* "none" | "ok" | "ValueError:api_key" | "ValueError:api_base"
    client,     \* the instance's fields, or NoClient
    built,      \* the instance's fields as they were when __init__ returned
    pc,         \* "idle" | "waiting" (POST in flight) | "done"
    calls,      \* summarize_text calls made on the instance so far
    callArgs,   \* arguments of the summarize_text call in progress / last made
    posts,      \* requests sent by the summarize_text call in progress / last made
    resp,       \* what came back for the POST
    outcome,    \* how summarize_text ended
    data,       \* decoded body handed to the normalization step
    content,    \* result of the normalization step
    pin,        \* inputs of build_summarization_prompt
    prompt      \* its result

vars == <<env, ctorArgs, ctorResult, client, built, pc, calls, callArgs, posts,
          resp, outcome, data, content, pin, prompt>>

clientVars == <<env, ctorArgs, ctorResult, client, built, pc, calls, callArgs,
                posts, resp, outcome>>
normVars   == <<data, content>>
promptVars == <<pin, prompt>>

-----------------------------------------------------------------------------
(* Python values *)

None      == [k |-> "null", v |-> 0]
Str(s)    == [k |-> "str",  v |-> s]
Num(n)    == [k |-> "num",  v |-> n]
Bool(b)   == [k |-> "bool", v |-> b]
List(xs)  == [k |-> "list", v |-> xs]
Dict(kvs) == [k |-> "dict", v |-> kvs]   \* kvs: sequence of <<key, value>>, keys distinct

\* bool(x)
Truthy(x) ==
    CASE x.k = "null" -> FALSE
      [] x.k = "num"  -> x.v # 0
      [] x.k = "bool" -> x.v
      [] OTHER        -> x.v # <<>>

\* a or b
Or(a, b) == IF Truthy(a) THEN a ELSE b

\* dict.get(key): the value, None when the key is absent
DictGet(kvs, key) ==
    IF \E i \in DOMAIN kvs : kvs[i][1] = key
    THEN kvs[CHOOSE i \in DOMAIN kvs : kvs[i][1] = key][2]
    ELSE None

\* str.strip() without an argument strips the characters c with c.isspace():
\* U+0009..U+000D, U+001C..U+001F, U+0020, U+0085, U+00A0, U+1680,
\* U+2000..U+200A, U+2028, U+2029, U+202F, U+205F, U+3000
Whitespace ==
    { "\t", "\n", "U+000B", "\f", "\r",
      "U+001C", "U+001D", "U+001E", "U+001F",
      " ",
      "U+0085", "U+00A0", "U+1680",
      "U+2000", "U+2001", "U+2002", "U+2003", "U+2004", "U+2005",
      "U+2006", "U+2007", "U+2008", "U+2009", "U+200A",
      "U+2028", "U+2029", "U+202F", "U+205F", "U+3000" }

RECURSIVE LStrip(_)
LStrip(s) ==
    IF s # <<>> /\ Head(s) \in Whitespace THEN LStrip(Tail(s)) ELSE s

RECURSIVE RStrip(_)
RStrip(s) ==
    IF s # <<>> /\ s[Len(s)] \in Whitespace
    THEN RStrip(SubSeq(s, 1, Len(s) - 1))
    ELSE s

Strip(s) == RStrip(LStrip(s))

\* s.rstrip(ch)
RECURSIVE RStripChar(_, _)
RStripChar(s, ch) ==
    IF s # <<>> /\ s[Len(s)] = ch
    THEN RStripChar(SubSeq(s, 1, Len(s) - 1), ch)
    ELSE s

\* s.startswith(p)
StartsWith(s, p) == Len(s) >= Len(p) /\ SubSeq(s, 1, Len(p)) = p

\* s[:n] for any integer n (a negative n counts from the end)
SliceTo(s, n) ==
    IF n >= 0
    THEN SubSeq(s, 1, IF n < Len(s) THEN n ELSE Len(s))
    ELSE SubSeq(s, 1, IF Len(s) + n > 0 THEN Len(s) + n ELSE 0)

-----------------------------------------------------------------------------
(* NvidiaLLMClient._get_nested *)

IntKey(i) == [ty |-> "int", key |-> i]
StrKey(s) == [ty |-> "str", key |-> s]

\* position of xs[i] for a Python index i: a negative i counts from the end;
\* outside 1..Len(xs) the subscript raises IndexError
ListIndex(xs, i) == IF i >= 0 THEN i + 1 ELSE Len(xs) + i + 1

RECURSIVE GetNested(_, _)
GetNested(obj, path) ==
    IF path = <<>> THEN obj
    ELSE LET key == Head(path) IN
         IF key.ty = "int" /\ obj.k = "list"
         THEN IF ListIndex(obj.v, key.key) \in DOMAIN obj.v
              THEN GetNested(obj.v[ListIndex(obj.v, key.key)], Tail(path))
              ELSE None
         ELSE IF key.ty = "str" /\ obj.k = "dict"
         THEN GetNested(DictGet(obj.v, key.key), Tail(path))
         ELSE None

PathMessageContent == <<StrKey("choices"), IntKey(0), StrKey("message"), StrKey("content")>>
PathChoiceText     == <<StrKey("choices"), IntKey(0), StrKey("text")>>


-----------------------------------------------------------------------------
(* How a call ends: a returned str, or the exception raised *)

Outcome(kind, status, body, value) ==
    [kind |-> kind, status |-> status, body |-> body, value |-> value]

Pending              == Outcome("pending", 0, None, <<>>)
Returned(s)          == Outcome("return", 0, None, s)
NetworkError         == Outcome("NetworkError", 0, None, <<>>)
HttpError(st, body)  == Outcome("HttpError", st, body, <<>>)
ParseError           == Outcome("ParseError", 0, None, <<>>)
UnexpectedResponseShape(body) == Outcome("UnexpectedResponseShape", 0, body, <<>>)
AttributeError       == Outcome("AttributeError", 0, None, <<>>)

-----------------------------------------------------------------------------
(* summarize_text, from the decoded body on *)

\* `if not content: raise ...` and `return content.strip()`; a value without
\* a strip method (number, bool, list, dict) raises AttributeError there
Finish(c, body) ==
    IF ~Truthy(c) THEN UnexpectedResponseShape(body)
    ELSE IF c.k = "str" THEN Returned(Strip(c.v))
    ELSE AttributeError

\* the `or` chain over the four paths; data.get is reached only when both
\* nested lookups are falsy, and exists only on a dict
Normalize(body) ==
    LET a == GetNested(body, PathMessageContent)
        b == GetNested(body, PathChoiceText)
    IN  IF Truthy(a) THEN Finish(a, body)
        ELSE IF Truthy(b) THEN Finish(b, body)
        ELSE IF body.k # "dict" THEN AttributeError
        ELSE Finish(Or(DictGet(body.v, "output_text"), DictGet(body.v, "text")), body)

-----------------------------------------------------------------------------
(* Decoded response bodies the model feeds to summarize_text *)

Absent == [k |-> "absent", v |-> 0]
Pair(key, x) == IF x = Absent THEN <<>> ELSE << <<key, x>> >>

Leaves ==
    { None, Num(0), Num(7), Bool(TRUE), Str(<<>>), Str(<<" ">>),
      Str(<<" ", "a", " ">>), Str(<<"\f", "b", "U+00A0">>), Str(<<"b">>), List(<<>>) }

Messages ==
    Leaves \cup { Dict(Pair("content", c)) : c \in Leaves \cup {Absent} }

Choices0 ==
    Leaves \cup
    { Dict(Pair("message", m) \o Pair("text", t)) :
        m \in Messages \cup {Absent}, t \in Leaves \cup {Absent} }

ChoicesVals ==
    Leaves \cup { List(<<c>>) : c \in Choices0 }
           \cup { List(<<None, Dict(Pair("text", Str(<<"b">>)))>>) }

Bodies ==
    Leaves \cup
    { Dict(Pair("choices", ch) \o Pair("output_text", o) \o Pair("text", t)) :
        ch \in ChoicesVals \cup {Absent},
        o \in Leaves \cup {Absent}, t \in Leaves \cup {Absent} }

-----------------------------------------------------------------------------
(* Normalization on its own: every body, one step *)

InitNorm ==
    /\ data \in Bodies
    /\ content = Pending

NormalizeStep ==
    /\ content = Pending
    /\ content' = Normalize(data)
    /\ UNCHANGED <<data, clientVars, promptVars>>

-----------------------------------------------------------------------------
(* NvidiaLLMClient.__init__ *)

\* os.getenv(name, default)
Getenv(val, default) == IF val = None THEN default ELSE val

Http == <<"h", "t", "t", "p">>

\* the literal defaults of lines 36 and 37 (the tail of the first is elided)
DefaultApiBase == Str(<<"n", "v", "a", "p", "i", "-", "...">>)
DefaultModel   == Str(<<"llama-3_2-nemoretriever-300m-embed-v1">>)
DefaultTimeoutSec == 60

NoClient == [api_key |-> None, api_base |-> None, model |-> None, timeout_sec |-> 0]

\* lines 35-38: the fields __init__ assigns
InitFields(e, a) ==
    [ api_key     |-> Or(a.api_key,  Getenv(e.key,   Str(<<>>))),
      api_base    |-> Or(a.api_base, Getenv(e.base,  DefaultApiBase)),
      model       |-> Or(a.model,    Getenv(e.model, DefaultModel)),
      timeout_sec |-> a.timeout_sec ]

\* lines 40-43: the two validations, in order
InitCheck(f) ==
    IF ~Truthy(f.api_key) THEN "ValueError:api_key"
    ELSE IF ~StartsWith(f.api_base.v, Http) THEN "ValueError:api_base"
    ELSE "ok"

-----------------------------------------------------------------------------
(* NvidiaLLMClient.summarize_text *)

\* _chat_completions_url
ChatCompletionsUrl(c) == RStripChar(c.api_base.v, "/") \o <<"/chat/completions">>

\* _headers
Headers(c) ==
    [ Authorization |-> <<"Bearer ">> \o c.api_key.v,
      ContentType   |-> "application/json" ]

\* lines 63-72
Payload(c, a) ==
    [ model       |-> c.model,
      messages    |-> << [role |-> "system",
                          content |-> <<"You are a world-class summarization assistant.">>],
                         [role |-> "user", content |-> a.prompt] >>,
      temperature |-> a.temperature,
      max_tokens  |-> a.max_tokens,
      stream      |-> FALSE ]

\* the arguments of requests.post on line 75
Request(c, a) ==
    [ url     |-> ChatCompletionsUrl(c),
      headers |-> Headers(c),
      json    |-> Payload(c, a),
      timeout |-> c.timeout_sec ]

\* lines 76-103: classification of what came back
SummarizeOutcome(r) ==
    IF r.transport = "fail" THEN NetworkError
    ELSE IF r.status # 200
         THEN HttpError(r.status, IF r.parses THEN r.json ELSE Str(r.text))
    ELSE IF ~r.parses THEN ParseError
    ELSE Normalize(r.json)

-----------------------------------------------------------------------------
(* Inputs of the client model *)

MaxCalls == 2

Key(s)  == Str(<<s>>)
EnvKeys   == { None, Str(<<>>), Key("ek") }
EnvBases  == { None, Str(Http \o <<"s", ":", "/", "/", "e">>) }
EnvModels == { None, Key("em") }

ArgKeys   == { None, Str(<<>>), Key("k") }
ArgBases  ==
    { None,
      Str(Http \o <<":", "/", "/", "h", "/", "/">>),
      Str(Http \o <<"s", ":", "/", "/", "h">>),
      Str(Http \o <<"x">>),
      Str(<<"f", "t", "p", ":", "/", "/", "h">>) }
ArgModels == { None, Key("m") }
ArgTimeouts == { DefaultTimeoutSec, 5 }

CtorArgs ==
    [ api_key : ArgKeys, api_base : ArgBases, model : ArgModels,
      timeout_sec : ArgTimeouts ]
NoArgs == [api_key |-> None, api_base |-> None, model |-> None, timeout_sec |-> 0]

CallArgs ==
    [ prompt : { <<"p">> }, temperature : { 2 }, max_tokens : { 256, 512 } ]
NoCall == [prompt |-> <<>>, temperature |-> 0, max_tokens |-> 0]

Statuses == { 200, 201, 204, 404, 503 }

Message(c) == Dict(<< <<"choices", List(<< Dict(<< <<"message", Dict(<< <<"content", c>> >>)>> >>) >>)>> >>)

ClientBodies ==
    { Message(Str(<<" ", "a", " ">>)),
      Message(Num(7)),
      Dict(<< <<"choices", List(<< Dict(<< <<"text", Str(<<"b">>)>> >>) >>)>> >>),
      Dict(<< <<"output_text", Str(<<"b">>)>> >>),
      Dict(<< <<"text", Str(<<" ", "a", " ">>)>> >>),
      Dict(<< <<"error", Str(<<"b">>)>> >>),
      Dict(<<>>),
      List(<<>>),
      None }

RawTexts == { <<>>, <<"<", "h", "t", "m", "l", ">">> }

NoResp == [transport |-> "none", status |-> 0, parses |-> FALSE, json |-> None, text |-> <<>>]

Responses ==
    { [transport |-> "fail", status |-> 0, parses |-> FALSE, json |-> None, text |-> <<>>] }
    \cup { [transport |-> "ok", status |-> st, parses |-> TRUE, json |-> b, text |-> <<>>] :
             st \in Statuses, b \in ClientBodies }
    \cup { [transport |-> "ok", status |-> st, parses |-> FALSE, json |-> None, text |-> t] :
             st \in Statuses, t \in RawTexts }

-----------------------------------------------------------------------------
(* The client: construction, then calls *)

InitClient ==
    /\ env \in [key : EnvKeys, base : EnvBases, model : EnvModels]
    /\ ctorArgs = NoArgs
    /\ ctorResult = "none"
    /\ client = NoClient
    /\ built = NoClient
    /\ pc = "idle"
    /\ calls = 0
    /\ callArgs = NoCall
    /\ posts = <<>>
    /\ resp = NoResp
    /\ outcome = Pending

\* client = NvidiaLLMClient(api_key, api_base, model, timeout_sec)
Construct(a) ==
    /\ ctorResult = "none"
    /\ LET f == InitFields(env, a)
           r == InitCheck(f)
       IN  /\ ctorArgs' = a
           /\ ctorResult' = r
           /\ client' = IF r = "ok" THEN f ELSE NoClient
           /\ built' = client'
    /\ UNCHANGED <<env, pc, calls, callArgs, posts, resp, outcome, normVars, promptVars>>

SummarizeSend_storesUrl(a) ==
    /\ ctorResult = "ok"
    /\ pc # "waiting"
    /\ calls < MaxCalls
    /\ callArgs' = a
    /\ posts' = << Request(client, a) >>
    /\ resp' = NoResp
    /\ outcome' = Pending
    /\ pc' = "waiting"
    /\ calls' = calls + 1
    /\ client' = [client EXCEPT !.api_base = Str(RStripChar(client.api_base.v, "/"))]
    /\ UNCHANGED <<env, ctorArgs, ctorResult, built, normVars, promptVars>>

\* summarize_text up to the POST of line 75 (it blocks there)
SummarizeSend(a) ==
    /\ ctorResult = "ok"
    /\ pc # "waiting"
    /\ calls < MaxCalls
    /\ callArgs' = a
    /\ posts' = << Request(client, a) >>
    /\ resp' = NoResp
    /\ outcome' = Pending
    /\ pc' = "waiting"
    /\ calls' = calls + 1
    /\ UNCHANGED <<env, ctorArgs, ctorResult, client, built, normVars, promptVars>>

SummarizeReceive_retries(r) ==
    /\ pc = "waiting"
    /\ resp' = r
    /\ IF r.transport = "fail" /\ Len(posts) < 2
       THEN /\ posts' = Append(posts, Request(client, callArgs))
            /\ outcome' = Pending
            /\ pc' = "waiting"
       ELSE /\ posts' = posts
            /\ outcome' = SummarizeOutcome(r)
            /\ pc' = "done"
    /\ UNCHANGED <<env, ctorArgs, ctorResult, client, built, calls, callArgs,
                   normVars, promptVars>>

\* summarize_text from the POST's result to its return or raise
SummarizeReceive(r) ==
    /\ pc = "waiting"
    /\ resp' = r
    /\ outcome' = SummarizeOutcome(r)
    /\ pc' = "done"
    /\ UNCHANGED <<env, ctorArgs, ctorResult, client, built, calls, callArgs, posts,
                   normVars, promptVars>>

-----------------------------------------------------------------------------
(* build_summarization_prompt *)

NL == "\n"

TruncationMarker == <<NL, NL, "[...truncated for demo...]">>

\* lines 26-28
DocText(doc_text, max_chars) ==
    LET text == Strip(Or(doc_text, Str(<<>>)).v)
    IN  IF Len(text) > max_chars
        THEN SliceTo(text, max_chars) \o TruncationMarker
        ELSE text

\* hash(x) succeeds: a list or a dict is unhashable
Hashable(x) == x.k \notin {"list", "dict"}

\* what dict.get raises for an unhashable key
TypeErrorUnhashable(x) ==
    IF x.k = "list" THEN "TypeError: unhashable type: 'list'"
    ELSE "TypeError: unhashable type: 'dict'"

TypeErrors ==
    { "TypeError: unhashable type: 'list'", "TypeError: unhashable type: 'dict'" }

LengthGuidance_swapped(length) ==
    CASE ~Hashable(length)            -> TypeErrorUnhashable(length)
      [] length = Str(<<"short">>)    -> "about 120-150 words"
      [] length = Str(<<"medium">>)   -> "about 400-600 words"
      [] length = Str(<<"detailed">>) -> "about 200-300 words"
      [] OTHER                        -> "about 150 words"

\* length_map.get(length, 'about 150 words')
LengthGuidance(length) ==
    CASE ~Hashable(length)            -> TypeErrorUnhashable(length)
      [] length = Str(<<"short">>)    -> "about 120-150 words"
      [] length = Str(<<"medium">>)   -> "about 200-300 words"
      [] length = Str(<<"detailed">>) -> "about 400-600 words"
      [] OTHER                        -> "about 150 words"

\* tone_map.get(tone, 'neutral')
ToneGuidance(tone) ==
    CASE ~Hashable(tone)                -> TypeErrorUnhashable(tone)
      [] tone = Str(<<"neutral">>)      -> "neutral, objective"
      [] tone = Str(<<"professional">>) -> "concise, business-professional"
      [] tone = Str(<<"casual">>)       -> "friendly, plain-language"
      [] OTHER                          -> "neutral"

TitleInstruction  == "Start with a single-line Title that captures the main topic."
BulletInstruction == "Use bullet points for key takeaways."
AvoidInstruction  == "Avoid speculation. Preserve the original meaning."
SayBrieflyInstruction == "If the input is not summarizable, say so briefly."

FormatInstructions_titleByBullets(include_title, bullet_points) ==
    (IF bullet_points THEN <<TitleInstruction>> ELSE <<>>)
    \o (IF bullet_points THEN <<BulletInstruction>> ELSE <<>>)
    \o <<AvoidInstruction, SayBrieflyInstruction>>

\* lines 45-55
FormatInstructions(include_title, bullet_points) ==
    (IF include_title THEN <<TitleInstruction>> ELSE <<>>)
    \o (IF bullet_points THEN <<BulletInstruction>> ELSE <<>>)
    \o <<AvoidInstruction, SayBrieflyInstruction>>

\* sep.join(xs)
RECURSIVE Join(_, _)
Join(xs, sep) ==
    IF xs = <<>> THEN <<>>
    ELSE IF Len(xs) = 1 THEN xs
    ELSE <<Head(xs), sep>> \o Join(Tail(xs), sep)

\* a call that ends in an exception: the exception stands for the result
Raised(exc) == << exc >>

\* lines 58-69: the template, filled in and stripped; the two lookups are
\* evaluated in the order of lines 62 and 63 and the first to raise ends the call
BuildSummarizationPrompt(in) ==
    IF LengthGuidance(in.length) \in TypeErrors THEN Raised(LengthGuidance(in.length))
    ELSE IF ToneGuidance(in.tone) \in TypeErrors THEN Raised(ToneGuidance(in.tone))
    ELSE
    Strip(
        << NL,
           "You are a helpful assistant that produces accurate, faithful summaries.", NL,
           NL,
           "Goal: Summarize the user's document.", NL,
           "Target length: ", LengthGuidance(in.length), NL,
           "Tone: ", ToneGuidance(in.tone), NL,
           "Formatting:", NL,
           "- " >>
        \o Join(FormatInstructions(in.include_title, in.bullet_points), " ")
        \o << NL,
              NL,
              "Document:", NL >>
        \o DocText(in.doc_text, in.max_chars)
        \o << NL >> )

-----------------------------------------------------------------------------
(* Inputs of the prompt model *)

MaxLen == 3

DocChars == { "a", "b", " ", NL, "\f" }

RECURSIVE SeqsUpTo(_, _)
SeqsUpTo(S, n) ==
    IF n = 0 THEN { <<>> }
    ELSE LET shorter == SeqsUpTo(S, n - 1)
         IN  shorter \cup { Append(s, c) : s \in shorter, c \in S }

DocTexts == { None } \cup { Str(s) : s \in SeqsUpTo(DocChars, MaxLen) }
MaxCharsVals == (-2) .. (MaxLen + 1)
Lengths ==
    { Str(<<"short">>), Str(<<"medium">>), Str(<<"detailed">>), Str(<<"long">>),
      None, List(<<>>) }
Tones ==
    { Str(<<"neutral">>), Str(<<"professional">>), Str(<<"casual">>), Str(<<"formal">>),
      None, Dict(<<>>) }

PromptInputs ==
    [ doc_text : DocTexts, length : Lengths, tone : Tones,
      bullet_points : BOOLEAN, include_title : BOOLEAN, max_chars : MaxCharsVals ]

NotBuilt == << "<not built>" >>

InitPrompt ==
    /\ pin \in PromptInputs
    /\ prompt = NotBuilt

\* prompt = build_summarization_prompt(**pin)
Build ==
    /\ prompt = NotBuilt
    /\ prompt' = BuildSummarizationPrompt(pin)
    /\ UNCHANGED <<pin, clientVars, normVars>>

-----------------------------------------------------------------------------
(* Specifications *)

ClientAtRest ==
    /\ env = [key |-> None, base |-> None, model |-> None]
    /\ ctorArgs = NoArgs
    /\ ctorResult = "none"
    /\ client = NoClient
    /\ built = NoClient
    /\ pc = "idle"
    /\ calls = 0
    /\ callArgs = NoCall
    /\ posts = <<>>
    /\ resp = NoResp
    /\ outcome = Pending

NormAtRest == data = None /\ content = Pending

PromptAtRest ==
    /\ pin = [ doc_text |-> None, length |-> None, tone |-> None,
               bullet_points |-> TRUE, include_title |-> TRUE, max_chars |-> 0 ]
    /\ prompt = NotBuilt

\* the client: one instance, its construction and its calls
Init == InitClient /\ NormAtRest /\ PromptAtRest
Next ==
    \/ \E a \in CtorArgs : Construct(a)
    \/ \E a \in CallArgs : SummarizeSend(a)
    \/ \E r \in Responses : SummarizeReceive(r)
Spec == Init /\ [][Next]_vars

\* the normalization step over every decoded body
NormInit == ClientAtRest /\ InitNorm /\ PromptAtRest
NormNext == NormalizeStep
NormSpec == NormInit /\ [][NormNext]_vars

\* the prompt builder over every input
PromptInit == ClientAtRest /\ NormAtRest /\ InitPrompt
PromptNext == Build
PromptSpec == PromptInit /\ [][PromptNext]_vars

-----------------------------------------------------------------------------
(* Vocabulary of the properties *)

IsNonEmptyStr(x) == x.k = "str" /\ x.v # <<>>

\* a top-level key, looked up without assuming the body is a mapping
TopLevel(body, key) == IF body.k = "dict" THEN DictGet(body.v, key) ELSE None

\* the values at the four recognized paths, in order (a), (b), (c), (d)
PathValues(body) ==
    << GetNested(body, PathMessageContent),
       GetNested(body, PathChoiceText),
       TopLevel(body, "output_text"),
       TopLevel(body, "text") >>

HasMatch(body) == \E i \in 1..4 : IsNonEmptyStr(PathValues(body)[i])

FirstMatch(body) ==
    LET pv == PathValues(body)
        i  == CHOOSE j \in 1..4 :
                  /\ IsNonEmptyStr(pv[j])
                  /\ \A h \in 1..(j - 1) : ~IsNonEmptyStr(pv[h])
    IN  pv[i]

Is2xx(st) == st \in 200..299

SchemeHttp  == Http \o <<":", "/", "/">>
SchemeHttps == Http \o <<"s", ":", "/", "/">>
HasHttpScheme(s) == StartsWith(s, SchemeHttp) \/ StartsWith(s, SchemeHttps)

\* position of a fixed template element in a built prompt (0: absent)
Pos(p, tok) ==
    IF \E i \in DOMAIN p : p[i] = tok
    THEN CHOOSE i \in DOMAIN p : p[i] = tok /\ \A h \in 1..(i - 1) : p[h] # tok
    ELSE 0

\* build_summarization_prompt raised / returned a prompt
PromptRaised == prompt \in { Raised(e) : e \in TypeErrors }
PromptBuilt  == prompt # NotBuilt /\ ~PromptRaised

\* what follows the "Document:" line
DocumentSegment(p) ==
    LET i == Pos(p, "Document:")
    IN  IF i + 2 <= Len(p) THEN SubSeq(p, i + 2, Len(p)) ELSE <<>>

\* the first n characters of t
Take(t, n) ==
    IF n <= 0 THEN <<>> ELSE SubSeq(t, 1, IF n < Len(t) THEN n ELSE Len(t))

Trimmed(d) == Strip(IF d = None THEN <<>> ELSE d.v)

-----------------------------------------------------------------------------
(* C1 -- normalization is first-match-wins over the four paths             *)

\* C1: whenever one of the paths (a)-(d) holds a non-empty string, the step
\* returns the first such value, trimmed; and it returns nothing else.
C1_FirstMatchWins ==
    content # Pending =>
        /\ HasMatch(data) => content = Returned(Strip(FirstMatch(data).v))
        /\ content.kind = "return" => HasMatch(data)

(* C2 -- path lookups fail safely                                          *)

\* C2: for every decoded body the step either returns a string or raises
\* UnexpectedResponseShape carrying that body; nothing else escapes.
C2_ReturnOrShapeError ==
    content # Pending =>
        \/ content.kind = "return"
        \/ content = UnexpectedResponseShape(data)

(* C3 -- classification by transport, status, parseability                 *)

\* C3: a transport failure raises NetworkError; otherwise a non-2xx status
\* raises HttpError with the status and the body (parsed when it parses,
\* else raw); otherwise an unparsable body raises ParseError and a parsable
\* one goes to normalization.
C3_ClassifiedBy2xx ==
    pc = "done" =>
        outcome =
            IF resp.transport = "fail" THEN NetworkError
            ELSE IF ~Is2xx(resp.status)
                 THEN HttpError(resp.status,
                                IF resp.parses THEN resp.json ELSE Str(resp.text))
            ELSE IF ~resp.parses THEN ParseError
            ELSE Normalize(resp.json)

(* C4 -- one POST per call, then a return or a raise                       *)

ErrorKinds ==
    { "NetworkError", "HttpError", "ParseError", "UnexpectedResponseShape",
      "AttributeError" }

ErrorDetected(r) ==
    \/ r.transport = "fail"
    \/ ~Is2xx(r.status)
    \/ ~r.parses
    \/ ~HasMatch(r.json)

\* C4: while the call waits exactly one request has been sent and whatever
\* comes back ends the call; once it has ended still exactly one request was
\* sent, it ended in a return or a raise, and it did not return a value when
\* an error condition was present.
C4_OnePostThenEnd ==
    /\ pc = "waiting" =>
          /\ Len(posts) = 1
          /\ outcome = Pending
          /\ \A r \in Responses : ENABLED SummarizeReceive(r)
    /\ pc = "done" =>
          /\ Len(posts) = 1
          /\ outcome.kind \in {"return"} \cup ErrorKinds
          /\ ErrorDetected(resp) => outcome.kind \in ErrorKinds

C4_Witness ==
    /\ pc = "done"
    /\ resp.transport = "fail"
    /\ outcome = NetworkError
    /\ Len(posts) = 1

(* C5 -- an empty api_key argument                                         *)

EmptyKeyPassed == ctorResult # "none" /\ ~Truthy(ctorArgs.api_key)

\* C5: after construction with an empty or missing api_key there is no
\* instance on which a request could be sent, whatever the environment holds.
C5_EmptyKeyAlwaysFails ==
    EmptyKeyPassed => ctorResult # "ok" /\ client = NoClient /\ posts = <<>>

(* C6 -- what a constructed client holds                                   *)

\* C6: a constructed client has a non-empty api_key and an api_base that
\* begins with http:// or https://.
C6_KeyAndSchemeHeld ==
    ctorResult = "ok" =>
        /\ IsNonEmptyStr(client.api_key)
        /\ HasHttpScheme(client.api_base.v)

(* C7 -- configuration is frozen, calls are stateless                      *)

\* C7: the instance's fields equal what __init__ left; the request of a call
\* is built from those fields and the call's own arguments; the call's
\* outcome is decided by the response to its own request.
C7_ConfigFrozenCallsStateless ==
    /\ ctorResult = "ok" => client = built
    /\ pc # "idle" => posts = << Request(built, callArgs) >>
    /\ pc = "done" => outcome = SummarizeOutcome(resp)

C7_Witness ==
    /\ calls = 2
    /\ pc = "done"
    /\ outcome.kind = "return"
    /\ client.api_base = Str(SchemeHttp \o <<"h", "/", "/">>)

(* C8 -- truncation                                                        *)

\* C8: with t the trimmed doc_text, the document segment is the first
\* max_chars characters of t followed by the marker when t is longer than
\* max_chars, and t itself, without marker, otherwise.
C8_TruncationAnyMaxChars ==
    PromptBuilt =>
        LET t == Trimmed(pin.doc_text)
        IN  DocumentSegment(prompt) =
                IF Len(t) > pin.max_chars
                THEN Take(t, pin.max_chars) \o TruncationMarker
                ELSE t

(* C9 -- formatting instructions                                           *)

\* C9: the title instruction is in the prompt iff include_title, the bullet
\* instruction iff bullet_points, the two fixed instructions always, and
\* they stand in the order title, bullets, avoid-speculation, say-so-briefly.
C9_ConditionalInstructions ==
    PromptBuilt =>
        LET ti == Pos(prompt, TitleInstruction)
            bi == Pos(prompt, BulletInstruction)
            ai == Pos(prompt, AvoidInstruction)
            si == Pos(prompt, SayBrieflyInstruction)
        IN  /\ (ti > 0) <=> pin.include_title
            /\ (bi > 0) <=> pin.bullet_points
            /\ Pos(prompt, "Formatting:") < ai
            /\ ai < si
            /\ si < Pos(prompt, "Document:")
            /\ ti > 0 => Pos(prompt, "Formatting:") < ti /\ ti < ai
            /\ bi > 0 => ti < bi /\ bi < ai

C9_Witness ==
    /\ PromptBuilt
    /\ ~pin.include_title
    /\ pin.bullet_points
    /\ Pos(prompt, BulletInstruction) > 0
    /\ Pos(prompt, TitleInstruction) = 0

(* C10 -- guidance lookup                                                  *)

GuidanceAfter(p, label) == p[Pos(p, label) + 1]

GuidanceFromTables ==
    /\ GuidanceAfter(prompt, "Target length: ") =
          (CASE pin.length = Str(<<"short">>)    -> "about 120-150 words"
             [] pin.length = Str(<<"medium">>)   -> "about 200-300 words"
             [] pin.length = Str(<<"detailed">>) -> "about 400-600 words"
             [] OTHER                            -> "about 150 words")
    /\ GuidanceAfter(prompt, "Tone: ") =
          (CASE pin.tone = Str(<<"neutral">>)      -> "neutral, objective"
             [] pin.tone = Str(<<"professional">>) -> "concise, business-professional"
             [] pin.tone = Str(<<"casual">>)       -> "friendly, plain-language"
             [] OTHER                              -> "neutral")

\* C10 as stated: for every length and tone value build does not fail, and
\* the target-length and tone lines carry the table entry of the given value;
\* a value outside the tables gives "about 150 words" and "neutral".
C10_GuidanceAnyValue ==
    prompt # NotBuilt => ~PromptRaised /\ GuidanceFromTables

\* C10 amended: the same for every hashable length and tone (a string, None,
\* a number); an unhashable length or tone (a list, a dict) makes build raise
\* TypeError.
C10_GuidanceTables ==
    prompt # NotBuilt =>
        IF Hashable(pin.length) /\ Hashable(pin.tone)
        THEN ~PromptRaised /\ GuidanceFromTables
        ELSE PromptRaised

C10_Witness ==
    /\ PromptBuilt
    /\ pin.length = Str(<<"long">>)
    /\ pin.tone = None
    /\ GuidanceAfter(prompt, "Tone: ") = "neutral"

=============================================================================
